---- MODULE Spec2Model ----
(***************************************************************************)
(* A model of the sudoku solver: Configuration (configuration.py), the     *)
(* Sudoku board (sudoku.py) and the recursive SudokuSolver                 *)
(* (sudoku_solver.py).                                                     *)
(*                                                                         *)
(* numpy arrays are objects: a board holds references to its two arrays,   *)
(* so the arrays live in a heap and a Sudoku is a record of array ids.     *)
(* Array cells of dtype uint16 are numbers in 0 .. 2^16 - 1.               *)
(***************************************************************************)
EXTENDS Integers, Sequences, FiniteSets, TLC

VARIABLES
    input,      \* the input_material handed to SudokuSolver(...)
    heap,       \* array id -> numpy array (a function on the cells)
    stack,      \* the nested SudokuSolver(...).solve() calls, outermost first
    ret,        \* the value returned by the solve() call that ended last
    phase,      \* "new", "solving", "returned", "raised"
    error,      \* the exception that ended the program, or "none"
    boards,     \* the Sudoku objects of a direct user of the board API
    last        \* the last two board API calls, with what was observed before

vars == <<input, heap, stack, ret, phase, error, boards, last>>

(***************************************************************************)
(* Bounds of the model.                                                    *)
(***************************************************************************)
\* the inputs blank the first k cells of the base grid, k a multiple of
\* BlankStep up to BlankStep * MaxBlankSteps
MaxBlankSteps == 6

\* a direct user of the board places at most MaxPlaced numbers on one board
MaxPlaced == 2

(***************************************************************************)
(* Bit patterns.  An integer used as a bitmask is the set of the positions *)
(* of its set bits: 2^i is {i}, & is \cap, | is \cup.  A cell of a         *)
(* np.uint16 array keeps the positions below WordBits only.                *)
(***************************************************************************)
WordBits == 16

WordPositions == 0..(WordBits - 1)

\* what a uint16 cell keeps of a bit pattern
ToWord(bits) == bits \cap WordPositions

\* ~ of a uint16
BitNot(w) == WordPositions \ w

(***************************************************************************)
(* Configuration                                                           *)
(***************************************************************************)
\* an optional int is <<>> (None) or <<n>>
None == <<>>

ISqrt(n) == CHOOSE r \in 0..n : r * r <= n /\ (r + 1) * (r + 1) > n

validateParameters(size, partition_size) ==
    IF size > 10 ^ 2 THEN [error |-> "ValueError"]
    ELSE IF size < 0 THEN [error |-> "AttributeError"]
    ELSE IF ISqrt(size) * ISqrt(size) # size THEN [error |-> "ValueError"]
    ELSE LET ps == IF partition_size = None THEN ISqrt(size) ELSE partition_size[1]
         IN  IF ps * ps # size \/ ps < 0 THEN [error |-> "ValueError"]
             ELSE [error |-> "none", size |-> size, partition_size |-> ps]

\* a Python int stored in a cell of a numpy integer array goes through a C
\* long: from 2^63 on the store raises OverflowError; below, the cell keeps
\* the low WordBits bits
CLongBits == 63

\* number_to_bitmask[i] = 1 << i; cell_free_bit = 1
Configuration(size, partition_size) ==
    LET v == validateParameters(size, partition_size)
    IN  IF v.error # "none" THEN v
        \* lines 70-73 store number_to_bitmask[number] for number in 1..size
        ELSE IF \E number \in 1..v.size : number >= CLongBits
        THEN [error |-> "OverflowError"]
        ELSE [error |-> "none",
              size |-> v.size,
              partition_size |-> v.partition_size,
              number_to_bitmask |-> [i \in 0..v.size |-> {i}],
              cell_free_bit |-> {0}]

\* an array of shape (size, size) is a sequence of its cells, row by row
Idx(cfg, y, x) == y * cfg.size + x + 1

RowOf(cfg, k) == (k - 1) \div cfg.size

ColOf(cfg, k) == (k - 1) % cfg.size

NCells(cfg) == cfg.size * cfg.size

empty_matrix(cfg) == [k \in 1..NCells(cfg) |-> {}]

\* mutant: lines 72-73 are missing, the partition is not marked
InMask_without_partition(cfg, y, x, k) ==
    \/ RowOf(cfg, k) = y
    \/ ColOf(cfg, k) = x

\* matrix[y,:], matrix[:,x] and the partition of (y,x)
InMask(cfg, y, x, k) ==
    LET partition_y == (y \div cfg.partition_size) * cfg.partition_size
        partition_x == (x \div cfg.partition_size) * cfg.partition_size
    IN  \/ RowOf(cfg, k) = y
        \/ ColOf(cfg, k) = x
        \/ /\ partition_y <= RowOf(cfg, k)
           /\ RowOf(cfg, k) < partition_y + cfg.partition_size
           /\ partition_x <= ColOf(cfg, k)
           /\ ColOf(cfg, k) < partition_x + cfg.partition_size

\* mutant: the line that fills the column of the mask is missing
availability_masks_without_column(cfg, y, x, number) ==
    [k \in 1..NCells(cfg) |->
        IF RowOf(cfg, k) = y
           \/ /\ RowOf(cfg, k) \div cfg.partition_size = y \div cfg.partition_size
              /\ ColOf(cfg, k) \div cfg.partition_size = x \div cfg.partition_size
        THEN ToWord(cfg.number_to_bitmask[number]) ELSE {}]

availability_masks(cfg, y, x, number) ==
    [k \in 1..NCells(cfg) |->
        IF InMask(cfg, y, x, k) THEN ToWord(cfg.number_to_bitmask[number]) ELSE {}]

_9x9_configuration == Configuration(9, None)

_4x4_configuration == Configuration(4, None)

(***************************************************************************)
(* The heap of arrays                                                      *)
(***************************************************************************)
NewId(h) ==
    CHOOSE i \in 1..(Cardinality(DOMAIN h) + 1) :
        i \notin DOMAIN h /\ \A j \in 1..(i - 1) : j \in DOMAIN h

\* a fresh array holding arr
Alloc(h, arr) == [id |-> NewId(h), heap |-> (NewId(h) :> (arr @@ <<>>)) @@ h]

\* arr[k] = w, in place
Store(h, id, k, w) == [h EXCEPT ![id] = [@ EXCEPT ![k] = w]]

\* arrays no object refers to any more are freed
Collect(h, ids) == [i \in (DOMAIN h) \cap ids |-> h[i]]

(***************************************************************************)
(* Sudoku                                                                  *)
(***************************************************************************)
RECURSIVE OrAll(_, _, _)
OrAll(masks, i, acc) ==
    IF i > Len(masks) THEN acc
    ELSE OrAll(masks, i + 1, ToWord(acc \cup masks[i]))

\* Sudoku(config): every bit of number_to_bitmask is or-ed into every cell
Sudoku__init__(h, cfg) ==
    LET masks == [i \in 1..(cfg.size + 1) |-> cfg.number_to_bitmask[i - 1]]
    IN  CHOOSE r \in
            {LET a == Alloc(h, [k \in 1..NCells(cfg) |-> full])
                 d == Alloc(a.heap, [k \in 1..NCells(cfg) |-> 0])
             IN  [heap |-> d.heap,
                  obj |-> [placability_board |-> a.id, displayable |-> d.id,
                           placed_numbers |-> 0]] :
             full \in {OrAll(masks, 1, {})}} : TRUE

\* mutant: only the free bit is tested
canPlace_free_bit_only(h, cfg, s, y, x, number) ==
    h[s.placability_board][Idx(cfg, y, x)] \cap cfg.number_to_bitmask[0] # {}

canPlace(h, cfg, s, y, x, number) ==
    /\ h[s.placability_board][Idx(cfg, y, x)] \cap cfg.number_to_bitmask[number] # {}
    /\ h[s.placability_board][Idx(cfg, y, x)] \cap cfg.number_to_bitmask[0] # {}

\* mutant: line 60 is missing, the number is not counted
place_without_count(h, cfg, s, y, x, number) ==
    LET mask == availability_masks(cfg, y, x, number)
        old == h[s.placability_board]
    IN  CHOOSE r \in
            {LET h1 == Store(a.heap, a.id, Idx(cfg, y, x),
                           a.heap[a.id][Idx(cfg, y, x)] \cap BitNot(cfg.cell_free_bit))
                 h2 == Store(h1, s.displayable, Idx(cfg, y, x), number)
             IN  [heap |-> h2,
                  obj |-> [placability_board |-> a.id,
                           displayable |-> s.displayable,
                           placed_numbers |-> s.placed_numbers]] :
             a \in {Alloc(h, [k \in 1..NCells(cfg) |-> old[k] \cap BitNot(mask[k])])}} : TRUE

\* mutant: line 54 is missing, the free bit of the cell stays set
place_keeping_free_bit(h, cfg, s, y, x, number) ==
    LET mask == availability_masks(cfg, y, x, number)
        old == h[s.placability_board]
    IN  CHOOSE r \in
            {LET h2 == Store(a.heap, s.displayable, Idx(cfg, y, x), number)
             IN  [heap |-> h2,
                  obj |-> [placability_board |-> a.id,
                           displayable |-> s.displayable,
                           placed_numbers |-> s.placed_numbers + 1]] :
             a \in {Alloc(h, [k \in 1..NCells(cfg) |-> old[k] \cap BitNot(mask[k])])}} : TRUE

place(h, cfg, s, y, x, number) ==
    \* line 50 binds the field to a new array a, line 54 writes the cell of
    \* that array, line 57 the cell of the displayable array
    LET mask == availability_masks(cfg, y, x, number)
        old == h[s.placability_board]
    IN  CHOOSE r \in
            {LET h1 == Store(a.heap, a.id, Idx(cfg, y, x),
                           a.heap[a.id][Idx(cfg, y, x)] \cap BitNot(cfg.cell_free_bit))
                 h2 == Store(h1, s.displayable, Idx(cfg, y, x), number)
             IN  [heap |-> h2,
                  obj |-> [placability_board |-> a.id,
                           displayable |-> s.displayable,
                           placed_numbers |-> s.placed_numbers + 1]] :
             a \in {Alloc(h, [k \in 1..NCells(cfg) |-> old[k] \cap BitNot(mask[k])])}} : TRUE

\* line 67 returns when the free bit is clear; line 72 reads
\* config.availability_matrices, an attribute Configuration does not have
unplace(h, cfg, s, y, x, number) ==
    IF h[s.placability_board][Idx(cfg, y, x)] \cap cfg.cell_free_bit = {}
    THEN [heap |-> h, obj |-> s, error |-> "none"]
    ELSE [heap |-> h, obj |-> s, error |-> "AttributeError"]

\* mutant: new.displayable = self.displayable, without .copy()
copy_sharing_displayable(h, cfg, s) ==
    LET a == Alloc(h, h[s.placability_board])
    IN  [heap |-> a.heap,
         obj |-> [placability_board |-> a.id,
                  displayable |-> s.displayable,
                  placed_numbers |-> s.placed_numbers]]

copy(h, cfg, s) ==
    LET a == Alloc(h, h[s.placability_board])
        d == Alloc(a.heap, h[s.displayable])
    IN  [heap |-> d.heap,
         obj |-> [placability_board |-> a.id,
                  displayable |-> d.id,
                  placed_numbers |-> s.placed_numbers]]

\* mutant: compares with size instead of size**2
isSolved_size(cfg, s) == s.placed_numbers = cfg.size

isSolved(cfg, s) == s.placed_numbers = cfg.size ^ 2

(***************************************************************************)
(* SudokuSolver                                                            *)
(***************************************************************************)
\* the class attribute of SudokuSolver
config == _9x9_configuration

\* np.shape of a rectangular list of lists
shape(material) ==
    IF Len(material) = 0 THEN <<0>> ELSE <<Len(material), Len(material[1])>>

verifyInput(material) ==
    IF shape(material) # <<config.size, config.size>>
    THEN [error |-> "ValueError"]
    ELSE [error |-> "none", material |-> material]

\* the cells in the order of enumerate(...) and of np.where: row by row
CellAt(i) == <<RowOf(config, i + 1), ColOf(config, i + 1)>>

\* the loop over x of the row y of the input material
\* (CHOOSE r \in {F(p) : p \in {e}} : TRUE is F(e) with e computed once, as a
\* local variable holds the result of a call)
RECURSIVE FillRow(_, _, _, _, _)
FillRow(h, s, material, y, x) ==
    IF x = config.size THEN [error |-> "none", heap |-> h, obj |-> s]
    ELSE LET number == material[y + 1][x + 1]
         IN  IF number \notin {1, 2, 3, 4, 5, 6, 7, 8, 9}
             THEN FillRow(h, s, material, y, x + 1)
             ELSE IF canPlace(h, config, s, y, x, number)
             THEN CHOOSE r \in {FillRow(p.heap, p.obj, material, y, x + 1) :
                                  p \in {place(h, config, s, y, x, number)}} : TRUE
             ELSE [error |-> "AttributeError", heap |-> h, obj |-> s]

\* the loop over y
RECURSIVE FillFrom(_, _, _, _)
FillFrom(h, s, material, y) ==
    IF y = config.size THEN [error |-> "none", heap |-> h, obj |-> s]
    ELSE CHOOSE q \in {IF r.error # "none" THEN r
                        ELSE FillFrom(r.heap, r.obj, material, y + 1) :
                        r \in {FillRow(h, s, material, y, 0)}} : TRUE

SudokuSolver__init__(h, material) ==
    LET v == verifyInput(material)
    IN  IF v.error # "none" THEN [error |-> v.error, heap |-> h]
        ELSE CHOOSE r \in {FillFrom(s.heap, s.obj, v.material, 0) :
                             s \in {Sudoku__init__(h, config)}} : TRUE

\* np.where(placability_board & cell_free_bit), taken once before the loop
FreeCells(h, s) ==
    SelectSeq([i \in 1..(config.size * config.size) |-> CellAt(i - 1)],
              LAMBDA c : h[s.placability_board][Idx(config, c[1], c[2])]
                             \cap config.cell_free_bit # {})

\* mutant: range(1, size) instead of range(1, size + 1)
numbers_below_size(h, s, y, x) ==
    SelectSeq([n \in 1..(config.size - 1) |-> <<y, x, n>>],
              LAMBDA g : canPlace(h, config, s, g[1], g[2], g[3]))

numbers_this_cell_can_hold(h, s, y, x) ==
    SelectSeq([n \in 1..config.size |-> <<y, x, n>>],
              LAMBDA g : canPlace(h, config, s, g[1], g[2], g[3]))

RECURSIVE ScanCells(_, _, _, _, _, _, _)
\* mutant: line 151 reads <= 2, a cell with two candidates gets the first
ScanCells_placing_pairs(h, s, cells, i, stop, best, found) ==
    IF i > stop
    THEN [valid |-> TRUE, heap |-> h, obj |-> s, best_guesses |-> best,
          trivial_found |-> found]
    ELSE LET nums == numbers_this_cell_can_hold(h, s, cells[i][1], cells[i][2])
         IN  IF Len(nums) = 0
             THEN [valid |-> FALSE, heap |-> h, obj |-> s, best_guesses |-> best,
                   trivial_found |-> found]
             ELSE IF Len(nums) <= 2
             THEN CHOOSE r \in {ScanCells(p.heap, p.obj, cells, i + 1, stop, best, TRUE) :
                                  p \in {place(h, config, s, nums[1][1], nums[1][2],
                                                nums[1][3])}} : TRUE
             ELSE IF Len(nums) > 1 /\ Len(nums) < Len(best)
             THEN ScanCells(h, s, cells, i + 1, stop, nums, found)
             ELSE ScanCells(h, s, cells, i + 1, stop, best, found)

\* the body of the loop for the free cells i..stop
ScanCells(h, s, cells, i, stop, best, found) ==
    IF i > stop
    THEN [valid |-> TRUE, heap |-> h, obj |-> s, best_guesses |-> best,
          trivial_found |-> found]
    ELSE LET nums == numbers_this_cell_can_hold(h, s, cells[i][1], cells[i][2])
         IN  IF Len(nums) = 0
             THEN [valid |-> FALSE, heap |-> h, obj |-> s, best_guesses |-> best,
                   trivial_found |-> found]
             ELSE IF Len(nums) = 1
             THEN CHOOSE r \in {ScanCells(p.heap, p.obj, cells, i + 1, stop, best, TRUE) :
                                  p \in {place(h, config, s, nums[1][1], nums[1][2],
                                                nums[1][3])}} : TRUE
             ELSE IF Len(nums) > 1 /\ Len(nums) < Len(best)
             THEN ScanCells(h, s, cells, i + 1, stop, nums, found)
             ELSE ScanCells(h, s, cells, i + 1, stop, best, found)

\* the loop, taken in runs of config.size cells
RECURSIVE ScanFrom(_, _, _, _, _, _)
ScanFrom(h, s, cells, i, best, found) ==
    IF i > Len(cells)
    THEN [valid |-> TRUE, heap |-> h, obj |-> s, best_guesses |-> best,
          trivial_found |-> found]
    ELSE LET stop == IF i + config.size - 1 < Len(cells) THEN i + config.size - 1
                     ELSE Len(cells)
         IN  CHOOSE q \in {IF ~r.valid THEN r
                            ELSE ScanFrom(r.heap, r.obj, cells, i + config.size,
                                          r.best_guesses, r.trivial_found) :
                            r \in {ScanCells(h, s, cells, i, stop, best, found)}} : TRUE

considerEachCell(h, s, best, found) ==
    CHOOSE r \in {ScanFrom(h, s, cells, 1, best, found) :
                    cells \in {FreeCells(h, s)}} : TRUE

\* mutant: trivial_found is set in every pass
placeTrivialsPass_always_found(h, s) ==
    [considerEachCell(h, s, [k \in 1..config.size |-> None], FALSE)
        EXCEPT !.trivial_found = TRUE]

\* mutant: the result of considerEachCell is not looked at
placeTrivialsPass_ignoring_result(h, s) ==
    [considerEachCell(h, s, [k \in 1..config.size |-> None], FALSE) EXCEPT !.valid = TRUE]

\* one turn of the while loop of placeTrivials
placeTrivialsPass(h, s) ==
    considerEachCell(h, s, [k \in 1..config.size |-> None], FALSE)

\* mutant: the guess is placed with the next number
makeGuess_next_number(h, s, guess) ==
    CHOOSE r \in
        {IF guess = None
         THEN [error |-> "TypeError", heap |-> new_sudoku.heap, obj |-> new_sudoku.obj]
         ELSE [error |-> "none"]
              @@ place(new_sudoku.heap, config, new_sudoku.obj,
                       guess[1], guess[2], (guess[3] % config.size) + 1) :
         new_sudoku \in {copy(h, config, s)}} : TRUE

\* mutant: line 172 is missing, the copy is returned as it is
makeGuess_without_place(h, s, guess) ==
    CHOOSE r \in
        {IF guess = None
         THEN [error |-> "TypeError", heap |-> new_sudoku.heap, obj |-> new_sudoku.obj]
         ELSE [error |-> "none", heap |-> new_sudoku.heap, obj |-> new_sudoku.obj] :
         new_sudoku \in {copy(h, config, s)}} : TRUE

\* mutant: line 171 makes no copy, the guess is placed on the arrays of
\* self.sudoku
makeGuess_in_place(h, s, guess) ==
    CHOOSE r \in
        {IF guess = None
         THEN [error |-> "TypeError", heap |-> h, obj |-> s]
         ELSE [error |-> "none"] @@ place(h, config, s, guess[1], guess[2], guess[3])} : TRUE

makeGuess(h, s, guess) ==
    CHOOSE r \in
        {IF guess = None
         THEN [error |-> "TypeError", heap |-> new_sudoku.heap, obj |-> new_sudoku.obj]
         ELSE [error |-> "none"]
              @@ place(new_sudoku.heap, config, new_sudoku.obj,
                       guess[1], guess[2], guess[3]) :
         new_sudoku \in {copy(h, config, s)}} : TRUE

(***************************************************************************)
(* The run of SudokuSolver(input).solve()                                  *)
(***************************************************************************)
CouldNot == "the sudoku could not be solved"
CanNot == "the sudoku can not be solved"

\* given: the displayable of the board the call was made on, as it was then
NoRet == [solved |-> FALSE, sudoku |-> <<>>, message |-> "none", given |-> <<>>]

\* SudokuSolver(s), about to run solve()
Frame(h, s) ==
    [sudoku |-> s, best_guesses |-> <<>>, trivial_found |-> TRUE,
     pc |-> "placeTrivials", i |-> 1, given |-> h[s.displayable]]

Failure(message) ==
    [solved |-> FALSE, sudoku |-> <<>>, message |-> message, given |-> stack[Len(stack)].given]

Solved(s) ==
    [solved |-> TRUE, sudoku |-> <<s>>, message |-> "none", given |-> stack[Len(stack)].given]

Top == stack[Len(stack)]

Pop == SubSeq(stack, 1, Len(stack) - 1)

SetTop(f) == [stack EXCEPT ![Len(stack)] = f]

ObjIds(s) == {s.placability_board, s.displayable}

Roots(stk, r, bs) ==
    UNION ({ObjIds(stk[k].sudoku) : k \in 1..Len(stk)}
           \cup {ObjIds(r.sudoku[k]) : k \in 1..Len(r.sudoku)}
           \cup {ObjIds(bs[k]) : k \in 1..Len(bs)})

\* solve() of the top frame returns r
Return(h, r) ==
    /\ stack' = Pop
    /\ ret' = r
    /\ heap' = Collect(h, Roots(Pop, r, boards))
    /\ phase' = IF Len(stack) = 1 THEN "returned" ELSE phase
    /\ error' = error

Raise(h, e) ==
    /\ phase' = "raised"
    /\ error' = e
    /\ heap' = Collect(h, Roots(stack, ret, boards))
    /\ UNCHANGED <<stack, ret>>

Construct ==
    /\ phase = "new"
    /\ \E r \in {SudokuSolver__init__(heap, input)} :
           IF r.error # "none"
           THEN /\ phase' = "raised"
                /\ error' = r.error
                /\ UNCHANGED <<heap, stack, ret>>
           ELSE /\ phase' = "solving"
                /\ stack' = <<Frame(r.heap, r.obj)>>
                /\ heap' = Collect(r.heap, ObjIds(r.obj))
                /\ UNCHANGED <<error, ret>>
    /\ UNCHANGED <<input, boards, last>>

PlaceTrivials ==
    /\ phase = "solving"
    /\ Top.pc = "placeTrivials"
    /\ \E r \in {placeTrivialsPass(heap, Top.sudoku)} :
           IF ~r.valid
           THEN Return(r.heap, Failure(CouldNot))
           ELSE IF r.trivial_found
           THEN /\ stack' = SetTop([Top EXCEPT !.sudoku = r.obj,
                                                !.best_guesses = r.best_guesses,
                                                !.trivial_found = TRUE])
                /\ heap' = Collect(r.heap, Roots(stack', ret, boards))
                /\ UNCHANGED <<ret, phase, error>>
           ELSE IF isSolved(config, r.obj)
           THEN Return(r.heap, Solved(r.obj))
           ELSE /\ stack' = SetTop([Top EXCEPT !.sudoku = r.obj,
                                                !.best_guesses = r.best_guesses,
                                                !.trivial_found = FALSE,
                                                !.pc = "branch",
                                                !.i = 1])
                /\ heap' = Collect(r.heap, Roots(stack', ret, boards))
                /\ UNCHANGED <<ret, phase, error>>
    /\ UNCHANGED <<input, boards, last>>

\* the for loop of solve: the next guess, or the end of the loop
Guess ==
    /\ phase = "solving"
    /\ Top.pc = "branch"
    /\ IF Top.i > Len(Top.best_guesses)
       THEN Return(heap, Failure(CanNot))
       ELSE \E g \in {makeGuess(heap, Top.sudoku, Top.best_guesses[Top.i])} :
                IF g.error # "none"
                THEN Raise(heap, g.error)
                ELSE /\ stack' = Append(SetTop([Top EXCEPT !.pc = "call"]), Frame(g.heap, g.obj))
                     /\ heap' = Collect(g.heap, Roots(stack', ret, boards))
                     /\ UNCHANGED <<ret, phase, error>>
    /\ UNCHANGED <<input, boards, last>>

\* the recursive solve() has returned into the loop
Resume ==
    /\ phase = "solving"
    /\ Top.pc = "call"
    /\ IF ret.solved
       THEN Return(heap, [ret EXCEPT !.given = Top.given])
       ELSE /\ stack' = SetTop([Top EXCEPT !.pc = "branch", !.i = @ + 1])
            /\ heap' = Collect(heap, Roots(stack', NoRet, boards))
            /\ ret' = NoRet
            /\ UNCHANGED <<phase, error>>
    /\ UNCHANGED <<input, boards, last>>

(***************************************************************************)
(* The inputs                                                              *)
(***************************************************************************)
BlankStep == 5

\* a complete valid grid
BaseGrid ==
    [r \in 1..9 |-> [c \in 1..9 |-> ((3 * ((r - 1) % 3) + ((r - 1) \div 3) + (c - 1)) % 9) + 1]]

\* the puzzle of the entry point
MainGrid ==
    << <<0,0,0,0,4,3,0,0,2>>,
       <<0,5,0,0,0,0,0,0,0>>,
       <<7,0,4,6,0,0,1,0,0>>,
       <<0,8,0,9,0,0,0,0,0>>,
       <<0,6,0,0,0,0,5,0,0>>,
       <<9,0,5,0,2,0,0,0,1>>,
       <<8,0,0,0,0,0,0,0,0>>,
       <<0,0,0,0,6,0,0,7,0>>,
       <<1,0,9,7,0,0,4,0,0>> >>

Grid4x4 == << <<1,2,3,4>>, <<3,4,1,2>>, <<2,1,4,3>>, <<4,3,2,1>> >>

EmptyGrid == [r \in 1..9 |-> [c \in 1..9 |-> 0]]

\* the base grid without its first k cells, its first cell set to a and its
\* third to b (<<>>: left as it is)
Edited(k, a, b) ==
    [r \in 1..9 |-> [c \in 1..9 |->
        IF r = 1 /\ c = 1 /\ a # None THEN a[1]
        ELSE IF r = 1 /\ c = 3 /\ b # None THEN b[1]
        ELSE IF 9 * (r - 1) + (c - 1) < k THEN 0
        ELSE BaseGrid[r][c]]]

Inputs ==
    {Edited(BlankStep * j, a, b) :
        j \in 0..MaxBlankSteps, a \in {None, <<2>>, <<4>>}, b \in {None, <<6>>, <<10>>}}
    \cup {MainGrid, Grid4x4, EmptyGrid}

Init ==
    /\ input \in Inputs
    /\ heap = <<>>
    /\ stack = <<>>
    /\ ret = NoRet
    /\ phase = "new"
    /\ error = "none"
    /\ boards = <<>>
    /\ last = <<>>

Next ==
    \/ Construct
    \/ PlaceTrivials
    \/ Guess
    \/ Resume

Spec == Init /\ [][Next]_vars

\* the program is one thread that runs until solve() returns or raises
FairSpec == Spec /\ WF_vars(Next)

(***************************************************************************)
(* A direct user of the Sudoku class: place, unplace and copy called on    *)
(* boards made from Sudoku(config).                                        *)
(***************************************************************************)
\* the cells the user works on: two of one partition, two of one row, two
\* that share nothing
BoardCells == {<<0, 0>>, <<1, 1>>, <<1, 8>>}

\* the numbers the user places
BoardNumbers == {1, 2}

\* The id of an array is not observable, only which fields refer to the
\* same array: the arrays of the boards are renumbered in the order of the
\* fields that refer to them.
FieldIds(bs) ==
    [n \in 1..(2 * Len(bs)) |->
        IF n % 2 = 1 THEN bs[(n + 1) \div 2].placability_board
        ELSE bs[n \div 2].displayable]

Renumbered(bs, id) == CHOOSE n \in 1..(2 * Len(bs)) :
    FieldIds(bs)[n] = id /\ \A m \in 1..(n - 1) : FieldIds(bs)[m] # id

RenumberedBoards(bs) ==
    [k \in 1..Len(bs) |->
        [placability_board |-> Renumbered(bs, bs[k].placability_board),
         displayable |-> Renumbered(bs, bs[k].displayable),
         placed_numbers |-> bs[k].placed_numbers]]

RenumberedHeap(h, bs) ==
    [n \in {Renumbered(bs, FieldIds(bs)[m]) : m \in 1..(2 * Len(bs))} |->
        h[FieldIds(bs)[n]]]

\* what can be seen of the boards: the arrays' contents and the counters
Observed(h, bs) ==
    [k \in 1..Len(bs) |->
        [placability_board |-> h[bs[k].placability_board],
         displayable |-> h[bs[k].displayable],
         placed_numbers |-> bs[k].placed_numbers]]

Call(op, k, y, x, number, e) ==
    [op |-> op, k |-> k, y |-> y, x |-> x, number |-> number, error |-> e,
     before |-> Observed(heap, boards)]

BoardInit ==
    /\ input = <<>>
    /\ stack = <<>>
    /\ ret = NoRet
    /\ phase = "board"
    /\ error = "none"
    /\ LET s == Sudoku__init__(<<>>, config)
       IN  /\ heap = s.heap
           /\ boards = <<s.obj>>
    /\ last = [op |-> "Sudoku", k |-> 1, y |-> 0, x |-> 0, number |-> 0,
               error |-> "none", before |-> <<>>]

BoardPlace ==
    /\ phase = "board"
    /\ \E k \in 1..Len(boards), c \in BoardCells, number \in BoardNumbers :
          /\ boards[k].placed_numbers < MaxPlaced
          /\ canPlace(heap, config, boards[k], c[1], c[2], number)
          /\ LET p == place(heap, config, boards[k], c[1], c[2], number)
             IN  /\ boards' = [boards EXCEPT ![k] = p.obj]
                 /\ heap' = Collect(p.heap, Roots(stack, ret, boards'))
          /\ last' = Call("place", k, c[1], c[2], number, "none")
    /\ UNCHANGED <<input, stack, ret, phase, error>>

BoardUnplace ==
    /\ phase = "board"
    /\ \E k \in 1..Len(boards), c \in BoardCells, number \in BoardNumbers :
          LET u == unplace(heap, config, boards[k], c[1], c[2], number)
          IN  \* the user takes back the number the cell shows
              /\ heap[boards[k].displayable][Idx(config, c[1], c[2])] \in {0, number}
              /\ boards' = RenumberedBoards([boards EXCEPT ![k] = u.obj])
              /\ heap' = RenumberedHeap(u.heap, [boards EXCEPT ![k] = u.obj])
              /\ last' = Call("unplace", k, c[1], c[2], number, u.error)
              \* an exception ends the user's program
              /\ phase' = IF u.error = "none" THEN phase ELSE "raised"
              /\ error' = u.error
    /\ UNCHANGED <<input, stack, ret>>

BoardCopy ==
    /\ phase = "board"
    \* the user works on a board and one copy of it
    /\ Len(boards) = 1
    /\ \E k \in 1..Len(boards) :
          LET n == copy(heap, config, boards[k])
          IN  /\ boards' = RenumberedBoards(Append(boards, n.obj))
              /\ heap' = RenumberedHeap(n.heap, Append(boards, n.obj))
              /\ last' = Call("copy", k, 0, 0, 0, "none")
    /\ UNCHANGED <<input, stack, ret, phase, error>>

BoardNext ==
    \/ BoardPlace
    \/ BoardUnplace
    \/ BoardCopy

BoardSpec == BoardInit /\ [][BoardNext]_vars

(***************************************************************************)
(* What a sudoku is, stated on a grid of numbers (0: an empty cell)        *)
(* without the bitmasks: used to state the properties below.               *)
(***************************************************************************)
AllCells == 1..NCells(config)

Numbers == 1..config.size

BlockRow(k) == RowOf(config, k) \div config.partition_size

BlockCol(k) == ColOf(config, k) \div config.partition_size

\* two different cells of one row, one column or one block
Related(j, k) ==
    /\ j # k
    /\ \/ RowOf(config, j) = RowOf(config, k)
       \/ ColOf(config, j) = ColOf(config, k)
       \/ BlockRow(j) = BlockRow(k) /\ BlockCol(j) = BlockCol(k)

PeersOf == [k \in AllCells |-> {j \in AllCells : Related(j, k)}] @@ <<>>

Units ==
    {{k \in AllCells : RowOf(config, k) = r} : r \in 0..(config.size - 1)}
    \cup {{k \in AllCells : ColOf(config, k) = c} : c \in 0..(config.size - 1)}
    \cup {{k \in AllCells : BlockRow(k) = a /\ BlockCol(k) = b} :
            a \in 0..(config.partition_size - 1), b \in 0..(config.partition_size - 1)}

\* every cell filled, every unit holds every number exactly once
CompleteValid(d) ==
    /\ \A k \in AllCells : d[k] \in Numbers
    /\ \A u \in Units : \A v \in Numbers : Cardinality({k \in u : d[k] = v}) = 1

\* no number twice in a unit
Consistent(d) ==
    \A k \in AllCells : d[k] # 0 => \A j \in PeersOf[k] : d[j] # d[k]

Candidates(d, k) == {v \in Numbers : \A j \in PeersOf[k] : d[j] # v}

\* some way of filling the empty cells of a consistent grid is valid: every
\* completion gives some number to the empty cell with the fewest
\* candidates, so it is enough to try those
RECURSIVE Completable(_)
Completable(d) ==
    IF \A k \in AllCells : d[k] # 0 THEN TRUE
    ELSE LET count == [k \in AllCells |->
                          IF d[k] # 0 THEN config.size + 1
                          ELSE Cardinality(Candidates(d, k))] @@ <<>>
             best == CHOOSE k \in AllCells : \A j \in AllCells : count[k] <= count[j]
         IN  \E v \in Candidates(d, best) : Completable([d EXCEPT ![best] = v])

HasCompletion(d) == Consistent(d) /\ Completable(d)

IsGrid(material) ==
    /\ Len(material) = config.size
    /\ \A r \in 1..Len(material) : Len(material[r]) = config.size

\* the clues of an input grid: its entries in 1..N
Clues(material) ==
    [k \in AllCells |->
        LET n == material[RowOf(config, k) + 1][ColOf(config, k) + 1]
        IN  IF n \in Numbers THEN n ELSE 0]

\* the input passed construction
Accepted == phase \in {"solving", "returned"} \/ (phase = "raised" /\ error = "TypeError")

Shown(s) == heap[s.displayable]

(***************************************************************************)
(* Properties of solve                                                     *)
(***************************************************************************)
\* C1: whenever a solve() call returns (True, board), the board has every
\* cell filled and every row, column and block holds each of 1..N exactly
\* once
SolvedBoardIsValid ==
    ret.solved =>
        /\ CompleteValid(Shown(ret.sudoku[1]))
        /\ \A k \in AllCells :
              heap[ret.sudoku[1].placability_board][k] \cap config.cell_free_bit = {}

\* a solve() that had to guess has returned a solved board
SolvedByGuessing ==
    /\ phase = "returned"
    /\ ret.solved
    /\ input = MainGrid

\* C2: an accepted grid that has a completion is solved, the solved board
\* agrees with the clues, and solve ends in no other way than returning a
\* solved board or the failure result
SolveFindsCompletion ==
    Accepted =>
        /\ phase # "raised"
        /\ (phase = "returned" /\ HasCompletion(Clues(input))) =>
              /\ ret.solved
              /\ \A k \in AllCells :
                    Clues(input)[k] # 0 => Shown(ret.sudoku[1])[k] = Clues(input)[k]

\* C3: a solve() call returns the failure result only on a board without a
\* completion, with one of its two messages
FailureOnlyWithoutCompletion ==
    (~ret.solved /\ ret.message # "none") =>
        /\ ret.message \in {CouldNot, CanNot}
        /\ ~HasCompletion(ret.given)

\* the outermost solve() has failed after all its guesses failed
FailedAfterGuessing ==
    /\ phase = "returned"
    /\ ~ret.solved
    /\ ret.message = CanNot

(***************************************************************************)
(* Properties of the construction from an input grid                       *)
(***************************************************************************)
\* some clue equals an earlier clue of its row, column or block
ClueConflict(material) ==
    \E j, k \in AllCells :
        /\ j < k
        /\ Clues(material)[j] # 0
        /\ Clues(material)[j] = Clues(material)[k]
        /\ Related(j, k)

\* SudokuSolver(input) has returned and solve() has not started
FreshlyConstructed ==
    /\ phase = "solving"
    /\ Len(stack) = 1
    /\ stack[1].pc = "placeTrivials"
    /\ stack[1].best_guesses = <<>>

\* C4: construction from an N x N grid raises exactly when a clue equals an
\* earlier clue of its row, column or block; otherwise the board shows
\* exactly the clues, counts them, and the other cells are empty
ConstructionChecksClues ==
    (IsGrid(input) /\ phase # "new") =>
        /\ (phase = "raised" /\ error = "AttributeError") <=> ClueConflict(input)
        /\ ~ClueConflict(input) => Accepted
        /\ FreshlyConstructed =>
              /\ Shown(stack[1].sudoku) = Clues(input)
              /\ stack[1].sudoku.placed_numbers =
                    Cardinality({k \in AllCells : Clues(input)[k] # 0})
              /\ \A k \in AllCells :
                    (heap[stack[1].sudoku.placability_board][k]
                        \cap config.cell_free_bit # {}) <=> Clues(input)[k] = 0

\* construction has rejected a grid of the right shape
ConstructionRejected ==
    /\ IsGrid(input)
    /\ phase = "raised"
    /\ error = "AttributeError"

(***************************************************************************)
(* Properties of the propagation                                           *)
(***************************************************************************)
\* some free cell of the board can hold no number
DeadCell(h, s) ==
    \E k \in AllCells :
        /\ h[s.placability_board][k] \cap config.cell_free_bit # {}
        /\ \A n \in Numbers :
              ~canPlace(h, config, s, RowOf(config, k), ColOf(config, k), n)

AboutToPropagate == phase = "solving" /\ stack[Len(stack)].pc = "placeTrivials"

\* C5: when the scan of a node meets a free cell that can hold no number,
\* the solve() of that node returns the failure result at once: no
\* exception, no further pass, no guess
DeadCellReturnsFailure ==
    [][(/\ AboutToPropagate
        /\ \/ DeadCell(heap, Top.sudoku)
           \/ ~placeTrivialsPass(heap, Top.sudoku).valid)
       => /\ stack' = Pop
          /\ ret' = Failure(CouldNot)
          /\ phase' \in {"solving", "returned"}
          /\ error' = "none"]_vars

\* a node below the outermost one is about to meet a cell without candidates
DeadCellInBranch ==
    /\ AboutToPropagate
    /\ Len(stack) > 1
    /\ ~placeTrivialsPass(heap, Top.sudoku).valid

(***************************************************************************)
(* Complete inputs                                                         *)
(***************************************************************************)
\* C6: a completely filled valid input grid is returned as it is, after no
\* placement and no guess
CompleteInputReturnedUnchanged ==
    (IsGrid(input) /\ CompleteValid(Clues(input)) /\ phase # "new") =>
        /\ phase \in {"solving", "returned"}
        /\ Len(stack) <= 1
        /\ \A n \in 1..Len(stack) :
              /\ stack[n].pc = "placeTrivials"
              /\ Shown(stack[n].sudoku) = Clues(input)
              /\ stack[n].sudoku.placed_numbers = NCells(config)
        /\ phase = "returned" =>
              /\ ret.solved
              /\ Shown(ret.sudoku[1]) = Clues(input)
              /\ ret.sudoku[1].placed_numbers = NCells(config)

\* solve() has returned on a complete valid input
CompleteInputReturned ==
    /\ IsGrid(input)
    /\ CompleteValid(Clues(input))
    /\ phase = "returned"

\* C7: the complete valid 4x4 grid is accepted by construction and returned
\* by solve as itself
FourByFourReturnedUnchanged ==
    (input = Grid4x4 /\ phase # "new") =>
        /\ phase \in {"solving", "returned"}
        /\ phase = "returned" =>
              /\ ret.solved
              /\ \A r \in 1..4, c \in 1..4 :
                    Shown(ret.sudoku[1])[4 * (r - 1) + c] = Grid4x4[r][c]

(***************************************************************************)
(* Properties of the board operations                                      *)
(***************************************************************************)
Now == Observed(heap, boards)

\* C8: place(cell, v) with canPlace(cell, v) clears the bit of v in the cell
\* and in every cell of its row, column and block, clears the free bit of
\* the cell, shows v in the cell and counts one more; nothing else changes
PlaceEffect ==
    last.op = "place" =>
        LET b == last.before[last.k]
            a == Now[last.k]
            c == Idx(config, last.y, last.x)
        IN  /\ \A k \in AllCells, bit \in WordPositions :
                  bit \in a.placability_board[k] <=>
                      /\ bit \in b.placability_board[k]
                      /\ ~(bit = last.number /\ (k = c \/ Related(k, c)))
                      /\ ~(bit = 0 /\ k = c)
            /\ \A k \in AllCells :
                  a.displayable[k] = IF k = c THEN last.number ELSE b.displayable[k]
            /\ a.placed_numbers = b.placed_numbers + 1

\* a number has been placed on a board that held one already
PlacedSecondNumber ==
    /\ last.op = "place"
    /\ boards[last.k].placed_numbers = 2

\* C9: the copy equals the original when it is made, and a place on one of
\* the two leaves the other as it was
CopyIsIndependent ==
    /\ last.op = "copy" =>
          /\ Now[Len(boards)] = last.before[last.k]
          /\ Now[last.k] = last.before[last.k]
    /\ last.op = "place" =>
          \A j \in 1..Len(boards) : j # last.k => Now[j] = last.before[j]

\* a number has been placed on the copy of a board that holds a number
PlacedOnCopy ==
    /\ last.op = "place"
    /\ Len(boards) = 2
    /\ last.k = 2
    /\ boards[1].placed_numbers > 0

\* C10: place(cell, v) on a board that does not show v, followed by
\* unplace(cell, v), gives back the board as it was before the place
PlaceUnplaceRoundTrip ==
    [][(/\ last.op = "place"
        /\ \A k \in AllCells : last.before[last.k].displayable[k] # last.number
        /\ last'.op = "unplace"
        /\ last'.k = last.k /\ last'.y = last.y /\ last'.x = last.x
        /\ last'.number = last.number)
       => /\ last'.error = "none"
          /\ Observed(heap', boards')[last.k] = last.before[last.k]]_vars

\* C11: unplace(cell, v) on a cell that is free completes without error and
\* leaves the availability, the values and the count of placed numbers of
\* the board as they were
UnplaceOnFreeCellIsNoOp ==
    (/\ last.op = "unplace"
     /\ last.before[last.k].placability_board[Idx(config, last.y, last.x)]
            \cap config.cell_free_bit # {})
    => /\ last.error = "none"
       /\ phase = "board"
       /\ Now[last.k] = last.before[last.k]

(***************************************************************************)
(* Properties of the boards of the search                                  *)
(***************************************************************************)
\* the boards of the running solve() calls and of the result
NodeBoards ==
    {stack[n].sudoku : n \in 1..Len(stack)} \cup {ret.sudoku[n] : n \in 1..Len(ret.sudoku)}

\* C12: on every board of the search, placed_numbers is the number of cells
\* showing a number, which is the number of cells whose free bit is clear;
\* so isSolved() holds exactly when no cell is empty
PlacedCountIsExact ==
    \A s \in NodeBoards :
        /\ s.placed_numbers = Cardinality({k \in AllCells : Shown(s)[k] # 0})
        /\ s.placed_numbers =
              Cardinality({k \in AllCells :
                  heap[s.placability_board][k] \cap config.cell_free_bit = {}})
        /\ isSolved(config, s) <=> \A k \in AllCells : Shown(s)[k] # 0

\* a board below the outermost one, made by a guess, holds numbers placed by
\* construction, by propagation and by guesses
GuessedBoardCounted ==
    /\ Len(stack) >= 3
    /\ Top.pc = "branch"
    /\ Top.sudoku.placed_numbers > stack[1].sudoku.placed_numbers + 2

(***************************************************************************)
(* Configuration(size, partition_size), then Sudoku(config)                *)
(***************************************************************************)
MaxSize == 101

MaxNegativeSize == 1

MaxPartitionSize == 11

ConfigInit ==
    /\ input \in ((0 - MaxNegativeSize)..MaxSize)
                    \X ({None} \cup {<<p>> : p \in 0..MaxPartitionSize})
    /\ heap = <<>>
    /\ stack = <<>>
    /\ ret = NoRet
    /\ phase = "new"
    /\ error = "none"
    /\ boards = <<>>
    /\ last = <<>>

\* config = Configuration(size, partition_size)
ConfigBuild ==
    /\ phase = "new"
    /\ \E c \in {Configuration(input[1], input[2])} :
          /\ phase' = IF c.error = "none" THEN "configured" ELSE "raised"
          /\ error' = c.error
          /\ last' = [op |-> "Configuration", error |-> c.error,
                      result |-> IF c.error = "none" THEN <<c>> ELSE <<>>]
    /\ UNCHANGED <<input, heap, stack, ret, boards>>

\* Sudoku(config)
ConfigBoard ==
    /\ phase = "configured"
    /\ \E s \in {Sudoku__init__(heap, last.result[1])} :
          /\ heap' = s.heap
          /\ boards' = <<s.obj>>
    /\ phase' = "board made"
    /\ UNCHANGED <<input, stack, ret, error, last>>

ConfigNext ==
    \/ ConfigBuild
    \/ ConfigBoard

ConfigSpec == ConfigInit /\ [][ConfigNext]_vars

\* size is a perfect square from 1 to 100
SupportedSize(size) == \E r \in 1..10 : r * r = size

\* C13: Configuration(size, partition_size) gives a Configuration exactly
\* when size is a perfect square from 1 to 100 and partition_size is absent
\* or its square root; in every other case it raises ValueError
ConfigurationBuiltIffSupported ==
    phase # "new" =>
        LET good == /\ SupportedSize(input[1])
                    /\ input[2] # None => input[2][1] * input[2][1] = input[1]
        IN  /\ good => /\ phase \in {"configured", "board made"}
                       /\ last.result[1].size = input[1]
                       /\ last.result[1].partition_size * last.result[1].partition_size
                              = input[1]
            /\ ~good => /\ phase = "raised"
                        /\ error = "ValueError"

\* C14: for every supported size N the masks of the numbers 1..N, as a cell
\* of the uint16 board keeps them, are single bits, different from each
\* other and from the free bit, and the empty board has all of them set
MasksFitTheWord ==
    /\ (phase # "new" /\ SupportedSize(input[1]) /\ input[2] = None)
          => phase \in {"configured", "board made"}
    /\ phase = "board made" =>
          LET cfg == last.result[1]
              kept == [v \in 1..cfg.size |-> availability_masks(cfg, 0, 0, v)[1]]
          IN  /\ \A v \in 1..cfg.size :
                    /\ Cardinality(kept[v]) = 1
                    /\ kept[v] # ToWord(cfg.cell_free_bit)
                    /\ kept[v] \subseteq heap[boards[1].placability_board][1]
              /\ \A v, w \in 1..cfg.size : v # w => kept[v] # kept[w]

\* C15: on the board of every node of the search no number is shown twice
\* in a row, a column or a block, a cell shows a number exactly when its
\* free bit is clear, and every guess a node is going to place satisfies
\* canPlace on the board of the node
PlacementsAreLegal ==
    /\ \A s \in NodeBoards :
          /\ Consistent(Shown(s))
          /\ \A k \in AllCells :
                Shown(s)[k] # 0 <=>
                    heap[s.placability_board][k] \cap config.cell_free_bit = {}
    /\ \A n \in 1..Len(stack) :
          stack[n].pc \in {"branch", "call"} =>
              \A i \in 1..Len(stack[n].best_guesses) :
                  LET g == stack[n].best_guesses[i]
                  IN  g # None => canPlace(heap, config, stack[n].sudoku, g[1], g[2], g[3])

\* a board made by a guess on which propagation has placed numbers
PropagatedAfterGuess ==
    /\ Len(stack) >= 2
    /\ Top.pc = "branch"
    /\ Top.sudoku.placed_numbers > stack[Len(stack) - 1].sudoku.placed_numbers + 1

\* C16: on every board the availability is precise: the bit of v is set in
\* a cell exactly when no cell of its row, column and block shows v, the
\* free bit is set exactly when the cell is empty, and so canPlace(c, v)
\* holds exactly when c is empty and v conflicts with no placed number
AvailabilityIsPrecise ==
    \A s \in NodeBoards \cup {boards[n] : n \in 1..Len(boards)} :
        \A c \in AllCells :
            LET word == heap[s.placability_board][c]
                unit == PeersOf[c] \cup {c}
            IN  /\ word \subseteq 0..config.size
                /\ \A v \in Numbers :
                      /\ v \in word <=> \A j \in unit : Shown(s)[j] # v
                      /\ canPlace(heap, config, s, RowOf(config, c), ColOf(config, c), v)
                            <=> /\ Shown(s)[c] = 0
                                /\ \A j \in PeersOf[c] : Shown(s)[j] # v
                /\ 0 \in word <=> Shown(s)[c] = 0

\* the outermost node has converged with empty cells left
ConvergedWithChoices ==
    /\ Len(stack) = 1
    /\ Top.pc = "branch"
    /\ \E c \in AllCells : Cardinality(heap[Top.sudoku.placability_board][c]) > 2

(***************************************************************************)
(* Properties of the guesses                                               *)
(***************************************************************************)
\* the number of numbers the cell k of the board can hold
HoldCount(s, k) ==
    Len(numbers_this_cell_can_hold(heap, s, RowOf(config, k), ColOf(config, k)))

FreeCellsOf(s) ==
    {k \in AllCells : heap[s.placability_board][k] \cap config.cell_free_bit # {}}

\* the first free cell, row by row, among those that can hold the fewest numbers
FirstTightestCell(s) ==
    CHOOSE k \in FreeCellsOf(s) :
        \A j \in FreeCellsOf(s) :
            \/ HoldCount(s, k) < HoldCount(s, j)
            \/ HoldCount(s, k) = HoldCount(s, j) /\ k <= j

\* C17: whenever a node goes through its guesses, best_guesses has at least
\* 2 entries and they are exactly the placements (cell, v) with canPlace of
\* the first free cell among those with the fewest candidates
BestGuessesAreTightestCell ==
    \A n \in 1..Len(stack) :
        stack[n].pc \in {"branch", "call"} =>
            LET s == stack[n].sudoku
            IN  /\ Len(stack[n].best_guesses) >= 2
                /\ FreeCellsOf(s) # {}
                /\ stack[n].best_guesses =
                      numbers_this_cell_can_hold(heap, s,
                          RowOf(config, FirstTightestCell(s)),
                          ColOf(config, FirstTightestCell(s)))

(***************************************************************************)
(* Properties of the propagation and of the recursion                      *)
(***************************************************************************)
\* the grid d has no valid completion that differs from full in a cell that
\* d leaves empty: full is the only completion d can have
OnlyCompletion(d, full) ==
    \A k \in AllCells :
        (d[k] = 0 /\ full[k] # 0) =>
            \A w \in Numbers \ {full[k]} : ~HasCompletion([d EXCEPT ![k] = w])

\* C18: every number placed by propagation is forced: no valid completion
\* of the board on which the propagation started has another number in
\* that cell; and a board solved by propagation alone is the only
\* completion of the board of the call
PropagationIsForced ==
    /\ [](\A n \in 1..Len(stack) :
              /\ \A k \in AllCells : stack[n].given[k] # 0 =>
                    Shown(stack[n].sudoku)[k] = stack[n].given[k]
              /\ OnlyCompletion(stack[n].given, Shown(stack[n].sudoku)))
    /\ [][(/\ AboutToPropagate
           /\ Len(stack') < Len(stack)
           /\ ret'.solved)
          => /\ CompleteValid(heap'[ret'.sudoku[1].displayable])
             /\ OnlyCompletion(Top.given, heap'[ret'.sudoku[1].displayable])]_vars

\* propagation alone has solved the board of the outermost call, which had
\* empty cells
SolvedByPropagationAlone ==
    /\ phase = "returned"
    /\ ret.solved
    /\ \E k \in AllCells : ret.given[k] = 0
    /\ OnlyCompletion(ret.given, Shown(ret.sudoku[1]))

\* every free cell of the board can hold at least 2 numbers
AtLeastTwoEverywhere(h, s) ==
    \A k \in AllCells :
        h[s.placability_board][k] \cap config.cell_free_bit # {} =>
            Cardinality({n \in Numbers :
                canPlace(h, config, s, RowOf(config, k), ColOf(config, k), n)}) >= 2

\* C19: placeTrivials terminates: a pass either places at least one number
\* and the count stays within N*N, or it is the last one; a last pass that
\* succeeds has placed nothing and leaves every free cell with at least 2
\* candidates; and every propagation comes to its end
PlaceTrivialsTerminates ==
    /\ [][AboutToPropagate =>
            LET before == Top.sudoku
                goes_on == /\ Len(stack') = Len(stack)
                           /\ stack'[Len(stack')].pc = "placeTrivials"
                same(after) ==
                    /\ after.placed_numbers = before.placed_numbers
                    /\ heap'[after.displayable] = heap[before.displayable]
                    /\ heap'[after.placability_board] = heap[before.placability_board]
                    /\ AtLeastTwoEverywhere(heap', after)
            IN  \/ /\ goes_on
                   /\ stack'[Len(stack')].sudoku.placed_numbers > before.placed_numbers
                   /\ stack'[Len(stack')].sudoku.placed_numbers <= NCells(config)
                \/ /\ Len(stack') = Len(stack)
                   /\ stack'[Len(stack')].pc = "branch"
                   /\ same(stack'[Len(stack')].sudoku)
                \/ /\ stack' = Pop
                   /\ ret'.solved
                   /\ same(ret'.sudoku[1])
                \/ /\ stack' = Pop
                   /\ ret' = Failure(CouldNot)]_vars
    /\ AboutToPropagate ~> ~AboutToPropagate

\* a propagation has gone through a pass that placed numbers and is about
\* to start another one
SecondPass ==
    /\ AboutToPropagate
    /\ Top.best_guesses # <<>>
    /\ Top.sudoku.placed_numbers > Cardinality({k \in AllCells : Top.given[k] # 0})

\* the number of cells of the grid d that show a number
Filled(d) == Cardinality({k \in AllCells : d[k] # 0})

\* C20: solve() ends on every accepted board; the recursive calls are never
\* nested deeper than the number of empty cells of the board of the
\* outermost call, and every recursive call gets a board with more placed
\* numbers than the board of its caller
SolveTerminates ==
    /\ [](/\ Len(stack) >= 1 =>
                Len(stack) - 1 <= NCells(config) - Filled(stack[1].given)
          /\ \A n \in 1..(Len(stack) - 1) :
                /\ stack[n + 1].sudoku.placed_numbers > stack[n].sudoku.placed_numbers
                /\ Filled(stack[n + 1].given) > stack[n].sudoku.placed_numbers
                /\ Filled(stack[n + 1].given) > Filled(stack[n].given))
    /\ <>(phase \in {"returned", "raised"})

\* a solve() called by a solve() that was called by the outermost one
NestedTwice ==
    /\ Len(stack) >= 3
    /\ Top.pc = "placeTrivials"
    /\ Top.best_guesses = <<>>

(***************************************************************************)
(* The board of a solve() that is trying its guesses                       *)
(***************************************************************************)
\* the fields of the board s: the contents of its two arrays and its count
BoardOf(h, s) ==
    [placability_board |-> h[s.placability_board],
     displayable |-> h[s.displayable],
     placed_numbers |-> s.placed_numbers]

\* the solve() of frame n is in its for loop: placeTrivials() has returned
InLoop(n) == stack[n].pc \in {"branch", "call"}

\* C21: once placeTrivials() of a solve() has returned, no step of the run
\* (a makeGuess, a step of a recursive solve, its failure or its success)
\* changes the board of that solve() or its best_guesses as long as the call
\* lasts; no two calls hold the same array; and the board every recursive
\* call starts from is the board of its caller with the one guess placed
NoResidualState ==
    /\ [](/\ \A m, n \in 1..Len(stack) :
                m # n => ObjIds(stack[m].sudoku) \cap ObjIds(stack[n].sudoku) = {}
          /\ \A n \in 1..(Len(stack) - 1) :
                /\ stack[n].pc = "call"
                /\ stack[n].i \in 1..Len(stack[n].best_guesses)
                /\ \E g \in {stack[n].best_guesses[stack[n].i]} :
                       stack[n + 1].given =
                           [Shown(stack[n].sudoku) EXCEPT ![Idx(config, g[1], g[2])] = g[3]])
    /\ [][\A n \in 1..Len(stack) :
              (InLoop(n) /\ n <= Len(stack')) =>
                  /\ stack'[n].sudoku = stack[n].sudoku
                  /\ BoardOf(heap', stack'[n].sudoku) = BoardOf(heap, stack[n].sudoku)
                  /\ stack'[n].best_guesses = stack[n].best_guesses]_vars

\* a recursive solve() runs on a later guess of a solve() that is itself
\* recursive: the branch of an earlier guess has failed
LaterGuessTried ==
    /\ phase = "solving"
    /\ \E n \in 2..(Len(stack) - 1) :
           /\ stack[n].pc = "call"
           /\ stack[n].i >= 2

====
